---- MODULE Spec2Model ----
(***************************************************************************)
(* The generation session of src/src/app/page.tsx (component Home): the    *)
(* React state of the page, the handlers submit / restoreVersion / reset,  *)
(* the timeline and preview-modal handlers, and the completion of each     *)
(* outstanding fetch("/api/generate").                                     *)
(*                                                                         *)
(* One action is one browser event (or one fetch completion): React        *)
(* applies all the set-state calls of a handler in one batch and renders   *)
(* before the next discrete event, so every handler reads the state of the *)
(* latest render.  An action is enabled when the element that carries the  *)
(* handler is mounted.  The preview modal is mounted outside the per-state *)
(* screens (page.tsx:559-565) and neither traps focus nor makes the page   *)
(* inert, so the controls of the screen under it stay operable from the    *)
(* keyboard while it is open.                                              *)
(*                                                                         *)
(* Text is a sequence of one-character strings.  Left out: the textarea    *)
(* draft (input), the placeholder timer, the focus timers and the          *)
(* timestamp of a version, none of which any handler reads back.           *)
(***************************************************************************)
EXTENDS Integers, Sequences, FiniteSets, TLC

(***************************************************************************)
(* Bound of the exploration: the requests one session may send.            *)
(***************************************************************************)
MaxRequests == 5

(***************************************************************************)
(* Inputs.  RawPrompts is what may be typed (or picked) and submitted.  An *)
(* answer of the generator is a record: net (the fetch resolved), ok and   *)
(* status (the HTTP status), json (the body parsed), and the body's error, *)
(* messages and text.  The generator may fail in any of five ways, or      *)
(* succeed: with one fragment and no text for the prompt "b", with two     *)
(* fragments and a text for any other prompt.                              *)
(***************************************************************************)
RawPrompts == { <<>>, <<" ">>, <<" ", "a">>, <<"b", " ">> }

Failures ==
  { [net |-> FALSE, ok |-> FALSE, status |-> 0,   json |-> FALSE, error |-> "",     messages |-> <<>>, text |-> <<>>],
    [net |-> TRUE,  ok |-> FALSE, status |-> 500, json |-> TRUE,  error |-> "",     messages |-> <<>>, text |-> <<>>],
    [net |-> TRUE,  ok |-> TRUE,  status |-> 200, json |-> FALSE, error |-> "",     messages |-> <<>>, text |-> <<>>],
    [net |-> TRUE,  ok |-> TRUE,  status |-> 200, json |-> TRUE,  error |-> "boom", messages |-> <<>>, text |-> <<>>],
    [net |-> TRUE,  ok |-> TRUE,  status |-> 200, json |-> TRUE,  error |-> "",     messages |-> <<>>, text |-> <<>>] }

Success(prompt) ==
  IF prompt = <<"b">>
  THEN [net |-> TRUE, ok |-> TRUE, status |-> 200, json |-> TRUE, error |-> "",
        messages |-> <<"m1">>, text |-> <<>>]
  ELSE [net |-> TRUE, ok |-> TRUE, status |-> 200, json |-> TRUE, error |-> "",
        messages |-> <<"m1", "m2">>, text |-> <<"t">>]

Responses(prompt) == Failures \cup { Success(prompt) }

VARIABLES
  state,            \* AppState: "idle" | "thinking" | "rendered" | "error"
  a2uiMessages,     \* the document handed to the renderer
  lastPrompt,
  errorMsg,
  history,          \* the session's turns
  versions,         \* the version store
  activeVersionId,
  previewVersion,   \* <<>> (null) or <<v>>: the version shown in the modal
  versionCounter,   \* versionCounter.current
  pending,          \* the submit calls suspended at their fetch, oldest first
  lastOp,           \* history variable: the handler that ran last
  requestsSent,     \* history variable: the fetches issued so far
  restored          \* history variable: <<>> or <<r>>, the restore that ran
                    \* last with nothing but preview open/close since

vars == << state, a2uiMessages, lastPrompt, errorMsg, history, versions,
           activeVersionId, previewVersion, versionCounter, pending,
           lastOp, requestsSent, restored >>

(***************************************************************************)
(* String.prototype.trim on a sequence of characters.                      *)
(***************************************************************************)
IsSpace(c) == c = " "

RECURSIVE TrimStart(_)
TrimStart(s) ==
  IF s # <<>> /\ IsSpace(Head(s)) THEN TrimStart(Tail(s)) ELSE s

RECURSIVE TrimEnd(_)
TrimEnd(s) ==
  IF s # <<>> /\ IsSpace(s[Len(s)]) THEN TrimEnd(SubSeq(s, 1, Len(s) - 1)) ELSE s

\* Mutant of Trim: only the leading white space is removed.
TrimLeadingOnly(s) == TrimStart(s)

Trim(s) == TrimEnd(TrimStart(s))

(***************************************************************************)
(* The body of the try block up to the last throw: what one generator      *)
(* answer decodes to.                                                      *)
(***************************************************************************)
Decode(res) ==
  IF ~res.net THEN [ok |-> FALSE, message |-> "Failed to fetch"]
  ELSE IF ~res.ok THEN [ok |-> FALSE, message |-> "Server error: " \o ToString(res.status)]
  ELSE IF ~res.json THEN [ok |-> FALSE, message |-> "Unexpected token in JSON"]
  ELSE IF res.error # "" THEN [ok |-> FALSE, message |-> res.error]
  ELSE IF Len(res.messages) = 0
       THEN [ok |-> FALSE, message |-> "Claude generated no UI - try rephrasing"]
  ELSE [ok |-> TRUE, message |-> ""]

JSONStringify(messages) == <<"[">> \o messages \o <<"]">>

AssistantContent(data) ==
  IF data.text # <<>>
  THEN data.text \o <<"\n---a2ui_JSON---\n">> \o JSONStringify(data.messages)
  ELSE JSONStringify(data.messages)

HistoryToSend(isRefinement) == IF isRefinement THEN history ELSE <<>>

\* Mutant of NewHistory: the assistant turn is not recorded.
NewHistoryUserOnly(historyToSend, trimmed, data) ==
  historyToSend \o << [role |-> "user", content |-> trimmed] >>

NewHistory(historyToSend, trimmed, data) ==
  historyToSend \o << [role |-> "user", content |-> trimmed],
                      [role |-> "assistant", content |-> AssistantContent(data)] >>

\* The version built by a successful completion.  born is a history
\* variable: the version store the version was appended to.
NewVersion(req, data) ==
  [ id       |-> versionCounter + 1,
    prompt   |-> req.prompt,
    messages |-> data.messages,
    history  |-> NewHistory(req.history, req.prompt, data),
    born     |-> versions ]

\* prev.findIndex((v) => v.id === version.id) + 1
FindIndexPlus1(prev, id) ==
  IF \E i \in 1..Len(prev) : prev[i].id = id
  THEN CHOOSE i \in 1..Len(prev) :
         /\ prev[i].id = id
         /\ \A j \in 1..(i - 1) : prev[j].id # id
  ELSE 0

\* Mutant of TruncateTo: the versions kept are relabelled with the prompt
\* on display.
TruncateRelabelling(prev, id) ==
  [ i \in 1..FindIndexPlus1(prev, id) |-> [prev[i] EXCEPT !.prompt = lastPrompt] ]

\* Mutant of TruncateTo: the store is not truncated.
KeepAll(prev, id) == prev

TruncateTo(prev, id) == SubSeq(prev, 1, FindIndexPlus1(prev, id))

Init ==
  /\ state = "idle"
  /\ a2uiMessages = <<>>
  /\ lastPrompt = <<>>
  /\ errorMsg = ""
  /\ history = <<>>
  /\ versions = <<>>
  /\ activeVersionId = 0
  /\ previewVersion = <<>>
  /\ versionCounter = 0
  /\ pending = <<>>
  /\ lastOp = "init"
  /\ requestsSent = 0
  /\ restored = <<>>

(***************************************************************************)
(* submit(prompt, isRefinement) up to its await.  The request keeps what   *)
(* the suspended call keeps (trimmed, historyToSend) and, as history       *)
(* variables, the raw prompt, the flag, the session as it was when submit  *)
(* was called and the restore it directly follows, if any.                 *)
(***************************************************************************)
Request(prompt, isRefinement) ==
  [ prompt       |-> Trim(prompt),
    history      |-> HistoryToSend(isRefinement),
    raw          |-> prompt,
    isRefinement |-> isRefinement,
    preHistory   |-> history,
    preVersions  |-> versions,
    preActive    |-> activeVersionId,
    restored     |-> restored ]

\* Mutant of Rejects: the state is not tested.
RejectsEmptyOnly(prompt) == Trim(prompt) = <<>>

\* if (!trimmed || state === "thinking") return;
Rejects(prompt) == Trim(prompt) = <<>> \/ state = "thinking"

Submit(prompt, isRefinement) ==
  IF Rejects(prompt)
  THEN /\ lastOp' = "rejected"
       /\ UNCHANGED << state, a2uiMessages, lastPrompt, errorMsg, history,
                       versions, activeVersionId, previewVersion,
                       versionCounter, pending, restored, requestsSent >>
  ELSE /\ lastPrompt' = Trim(prompt)
       /\ requestsSent' = requestsSent + 1
       /\ state' = "thinking"
       /\ errorMsg' = ""
       /\ IF ~isRefinement
          THEN /\ a2uiMessages' = <<>>
               /\ history' = <<>>
               /\ versions' = <<>>
               /\ versionCounter' = 0
          ELSE UNCHANGED << a2uiMessages, history, versions, versionCounter >>
       /\ pending' = Append(pending, Request(prompt, isRefinement))
       /\ lastOp' = "submit"
       /\ restored' = <<>>
       /\ UNCHANGED << activeVersionId, previewVersion >>

\* Keeps the exploration finite: a session sends at most MaxRequests
\* requests.
WithinBounds == requestsSent < MaxRequests

\* The idle screen: Enter in the textarea, the go button, a prompt chip.
SubmitIdle ==
  /\ state = "idle"
  /\ WithinBounds
  /\ \E p \in RawPrompts : Submit(p, FALSE)

\* The refine bar of the rendered screen; both handlers test val.trim().
SubmitRefine ==
  /\ state = "rendered"
  /\ WithinBounds
  /\ \E p \in RawPrompts :
       /\ Trim(p) # <<>>
       /\ Submit(p, TRUE)

\* Mutant of Complete: a failed request is sent again.
CompleteRetrying(i, res) ==
  LET req == pending[i]
      out == Decode(res)
  IN IF out.ok
     THEN /\ pending' = SubSeq(pending, 1, i - 1) \o SubSeq(pending, i + 1, Len(pending))
          /\ versionCounter' = versionCounter + 1
          /\ a2uiMessages' = res.messages
          /\ history' = NewHistory(req.history, req.prompt, res)
          /\ versions' = Append(versions, NewVersion(req, res))
          /\ activeVersionId' = versionCounter + 1
          /\ state' = "rendered"
          /\ lastOp' = "completed"
          /\ restored' = <<>>
          /\ UNCHANGED << errorMsg, lastPrompt, previewVersion, requestsSent >>
     ELSE /\ requestsSent' = requestsSent + 1
          /\ lastOp' = "failed"
          /\ UNCHANGED << state, a2uiMessages, lastPrompt, errorMsg, history,
                          versions, activeVersionId, previewVersion,
                          versionCounter, pending, restored >>

(***************************************************************************)
(* The rest of submit: the fetch of request i settles with answer res.     *)
(***************************************************************************)
Complete(i, res) ==
  LET req == pending[i]
      out == Decode(res)
  IN /\ pending' = SubSeq(pending, 1, i - 1) \o SubSeq(pending, i + 1, Len(pending))
     /\ restored' = <<>>
     /\ UNCHANGED << lastPrompt, previewVersion, requestsSent >>
     /\ IF out.ok
        THEN /\ versionCounter' = versionCounter + 1
             /\ a2uiMessages' = res.messages
             /\ history' = NewHistory(req.history, req.prompt, res)
             /\ versions' = Append(versions, NewVersion(req, res))
             /\ activeVersionId' = versionCounter + 1
             /\ state' = "rendered"
             /\ lastOp' = "completed"
             /\ UNCHANGED errorMsg
        ELSE /\ errorMsg' = out.message
             /\ state' = "error"
             /\ lastOp' = "failed"
             /\ UNCHANGED << versionCounter, a2uiMessages, history, versions,
                             activeVersionId >>

FetchSettles ==
  \E i \in 1..Len(pending) :
    \E res \in Responses(pending[i].prompt) : Complete(i, res)

(***************************************************************************)
(* restoreVersion(version), then onClose(): the modal's restore button.    *)
(***************************************************************************)
RestoreVersion(version) ==
  /\ a2uiMessages' = version.messages
  /\ history' = version.history
  /\ lastPrompt' = version.prompt
  /\ activeVersionId' = version.id
  /\ state' = "rendered"
  /\ versions' = TruncateTo(versions, version.id)
  /\ versionCounter' = version.id

\* History variable written by a restore: the id restored, whether that
\* very version was in the store, and whether the store was left holding
\* exactly the versions 1..id it held before.
RestoreRecord(version) ==
  [ id      |-> version.id,
    present |-> \E i \in 1..Len(versions) : versions[i] = version,
    exact   |-> /\ Len(versions') = version.id
                /\ \A k \in 1..version.id :
                     /\ k <= Len(versions)
                     /\ versions[k].id = k
                     /\ versions'[k] = versions[k] ]

RestoreAndContinue ==
  /\ previewVersion # <<>>
  /\ RestoreVersion(previewVersion[1])
  /\ previewVersion' = <<>>
  /\ lastOp' = "restore"
  /\ restored' = << RestoreRecord(previewVersion[1]) >>
  /\ UNCHANGED << errorMsg, pending, requestsSent >>

\* onClose alone: Escape, the overlay, the close button.
ClosePreview ==
  /\ previewVersion # <<>>
  /\ previewVersion' = <<>>
  /\ lastOp' = "close"
  /\ UNCHANGED << state, a2uiMessages, lastPrompt, errorMsg, history,
                  versions, activeVersionId, versionCounter, pending, restored,
                  requestsSent >>

\* Mutant of SelectVersion: the pill of the active version opens it too.
SelectAnyVersion ==
  /\ state = "rendered"
  /\ Len(versions) > 1
  /\ \E i \in 1..Len(versions) : previewVersion' = << versions[i] >>
  /\ lastOp' = "preview"
  /\ UNCHANGED << state, a2uiMessages, lastPrompt, errorMsg, history,
                  versions, activeVersionId, versionCounter, pending, restored,
                  requestsSent >>

\* Mutant of SelectVersion: the pill also makes the version active.
SelectVersionActivates ==
  /\ state = "rendered"
  /\ Len(versions) > 1
  /\ \E i \in 1..Len(versions) :
       /\ versions[i].id # activeVersionId
       /\ previewVersion' = << versions[i] >>
       /\ activeVersionId' = versions[i].id
  /\ lastOp' = "preview"
  /\ UNCHANGED << state, a2uiMessages, lastPrompt, errorMsg, history,
                  versions, versionCounter, pending, restored, requestsSent >>

\* A pill of the timeline: onSelect = setPreviewVersion.
SelectVersion ==
  /\ state = "rendered"
  /\ Len(versions) > 1
  /\ \E i \in 1..Len(versions) :
       /\ versions[i].id # activeVersionId
       /\ previewVersion' = << versions[i] >>
  /\ lastOp' = "preview"
  /\ UNCHANGED << state, a2uiMessages, lastPrompt, errorMsg, history,
                  versions, activeVersionId, versionCounter, pending, restored,
                  requestsSent >>

\* Mutant of Reset: the id counter is not zeroed.
ResetKeepsCounter ==
  /\ state \in {"rendered", "error"}
  /\ state' = "idle"
  /\ a2uiMessages' = <<>>
  /\ errorMsg' = ""
  /\ history' = <<>>
  /\ versions' = <<>>
  /\ activeVersionId' = 0
  /\ lastOp' = "reset"
  /\ restored' = <<>>
  /\ UNCHANGED << lastPrompt, previewVersion, pending, requestsSent,
                  versionCounter >>

\* reset: "New UI" on the rendered screen, "Try again" on the error screen.
Reset ==
  /\ state \in {"rendered", "error"}
  /\ state' = "idle"
  /\ a2uiMessages' = <<>>
  /\ errorMsg' = ""
  /\ history' = <<>>
  /\ versions' = <<>>
  /\ activeVersionId' = 0
  /\ versionCounter' = 0
  /\ lastOp' = "reset"
  /\ restored' = <<>>
  /\ UNCHANGED << lastPrompt, previewVersion, pending, requestsSent >>

Next ==
  \/ SubmitIdle
  \/ SubmitRefine
  \/ FetchSettles
  \/ RestoreAndContinue
  \/ ClosePreview
  \/ SelectVersion
  \/ Reset

Spec == Init /\ [][Next]_vars

(***************************************************************************)
(* The session with, in addition, submit called while the state is         *)
(* "thinking".  No element of the thinking screen carries the handler, so  *)
(* Spec has no such call; SpecCalls exercises the second half of the guard *)
(* of submit for any caller.                                               *)
(***************************************************************************)
SubmitWhileThinking ==
  /\ state = "thinking"
  /\ WithinBounds
  /\ \E p \in RawPrompts : \E isRefinement \in BOOLEAN : Submit(p, isRefinement)

NextCalls ==
  \/ Next
  \/ SubmitWhileThinking

SpecCalls == Init /\ [][NextCalls]_vars

(***************************************************************************)
(* The session with a generator that answers: the promise of every fetch   *)
(* settles (it resolves, or rejects on a transport failure), and the       *)
(* continuation of submit then runs.                                       *)
(***************************************************************************)
FairSpec == Spec /\ WF_vars(FetchSettles)

(***************************************************************************)
(* Vocabulary of the properties.                                           *)
(***************************************************************************)
Without(seq, i) == SubSeq(seq, 1, i - 1) \o SubSeq(seq, i + 1, Len(seq))

LastOf(seq) == seq[Len(seq)]

\* t is raw without its leading and trailing white space.
IsTrimOf(t, raw) ==
  /\ \E i \in 1..(Len(raw) + 1) : \E j \in 0..Len(raw) :
       /\ t = SubSeq(raw, i, j)
       /\ \A k \in 1..(i - 1) : raw[k] = " "
       /\ \A k \in (j + 1)..Len(raw) : raw[k] = " "
  /\ t # <<>> => (t[1] # " " /\ t[Len(t)] # " ")

\* The step just taken accepted a submit / settled request req.
Accepted == lastOp' = "submit" /\ Len(pending') = Len(pending) + 1

SettledWith(op, req) ==
  /\ lastOp' = op
  /\ \E i \in 1..Len(pending) : pending[i] = req /\ pending' = Without(pending, i)

(***************************************************************************)
(* C1.  At most one generation is in flight: a submit issued while a       *)
(* request is outstanding adds no request, and no more than one request is *)
(* ever outstanding (so two submits and one response create one version).  *)
(***************************************************************************)
C1_AtMostOneInFlight ==
  [][ /\ Len(pending') <= 1
      /\ Len(pending) >= 1 => Len(pending') <= Len(pending) ]_vars

(***************************************************************************)
(* C2.  When the generation of an accepted submit fails, the turn log, the *)
(* version store and the active version id are what they were when that    *)
(* submit was issued.                                                      *)
(***************************************************************************)
C2_FailureLeavesSessionAsBeforeSubmit ==
  [][ \A i \in 1..Len(pending) :
        SettledWith("failed", pending[i]) =>
          /\ history' = pending[i].preHistory
          /\ versions' = pending[i].preVersions
          /\ activeVersionId' = pending[i].preActive ]_vars

(***************************************************************************)
(* C3.  Temporal determinism of branching: a refinement submitted right    *)
(* after the restore of a version s of the store is sent s's turn log and, *)
(* when it succeeds, yields what it would have yielded right after s was   *)
(* created: version id s.id + 1, the turn log of s plus the two new turns, *)
(* and the store s was appended to, then s, then the new version.          *)
(***************************************************************************)
C3_RestoreThenRefineAsAfterCreation ==
  [][ \A i \in 1..Len(pending) :
        ( /\ SettledWith("completed", pending[i])
          /\ pending[i].isRefinement
          /\ pending[i].restored # <<>>
          /\ pending[i].restored[1].present )
        => LET req == pending[i]
               s   == LastOf(req.preVersions)
               new == LastOf(versions')
           IN /\ req.history = s.history
              /\ new.id = s.id + 1
              /\ history' = new.history
              /\ Len(history') = Len(s.history) + 2
              /\ SubSeq(history', 1, Len(s.history)) = s.history
              /\ versions' = Append(Append(s.born, s), new) ]_vars

(***************************************************************************)
(* C4.  restore(id), for an id present in the version store, truncates the *)
(* store to the prefix ending at that version, sets the turn log and the   *)
(* current document to those stored in that version, sets the active id    *)
(* and the id counter to id, and leaves the session in "rendered".         *)
(***************************************************************************)
C4_RestoreEffect ==
  [][ ( /\ lastOp' = "restore"
        /\ \E i \in 1..Len(versions) : versions[i].id = previewVersion[1].id )
      => LET id == previewVersion[1].id
             i  == CHOOSE k \in 1..Len(versions) : versions[k].id = id
         IN /\ versions' = SubSeq(versions, 1, i)
            /\ \A k \in 1..Len(versions') : versions'[k].id <= id
            /\ history' = versions[i].history
            /\ a2uiMessages' = versions[i].messages
            /\ activeVersionId' = id
            /\ versionCounter' = id
            /\ state' = "rendered" ]_vars

(***************************************************************************)
(* C5.  After restore(id) the next successful refinement creates version   *)
(* id + 1, and the store is then the versions 1..id it held before the     *)
(* restore followed by the new one.                                        *)
(***************************************************************************)
C5_RefineAfterRestoreContinuesFromId ==
  [][ \A i \in 1..Len(pending) :
        ( /\ SettledWith("completed", pending[i])
          /\ pending[i].isRefinement
          /\ pending[i].restored # <<>> )
        => LET req == pending[i]
               id  == req.restored[1].id
           IN /\ req.restored[1].exact
              /\ Len(versions') = id + 1
              /\ LastOf(versions').id = id + 1
              /\ SubSeq(versions', 1, id) = req.preVersions ]_vars

(***************************************************************************)
(* C6.  While a generation is outstanding, only its completion changes the *)
(* session: no restore, reset or further submit changes the state, the     *)
(* turn log, the version store, the active id or the id counter.           *)
(***************************************************************************)
C6_NoMutationWhileGenerating ==
  [][ (Len(pending) > 0 /\ lastOp' \notin {"completed", "failed"})
      => UNCHANGED << state, history, versions, activeVersionId,
                      versionCounter >> ]_vars

(***************************************************************************)
(* C7.  In every reachable state the ids of the version store, in store    *)
(* order, are 1, 2, ..., n.                                                *)
(***************************************************************************)
C7_IdsContiguousFromOne ==
  \A i \in 1..Len(versions) : versions[i].id = i

(***************************************************************************)
(* C8.  When the generation of an accepted submit succeeds, the turn log   *)
(* becomes the context sent, then a user turn holding the trimmed prompt,  *)
(* then one assistant turn; one version with id counter + 1 and that turn  *)
(* log is appended to the store and becomes active; the state becomes      *)
(* "rendered".                                                             *)
(***************************************************************************)
C8_SuccessAppendsOneVersion ==
  [][ \A i \in 1..Len(pending) :
        SettledWith("completed", pending[i])
        => LET req == pending[i]
               n   == Len(req.history)
               new == LastOf(versions')
           IN /\ Len(history') = n + 2
              /\ SubSeq(history', 1, n) = req.history
              /\ history'[n + 1].role = "user"
              /\ IsTrimOf(history'[n + 1].content, req.raw)
              /\ history'[n + 2].role = "assistant"
              /\ Len(versions') = Len(versions) + 1
              /\ SubSeq(versions', 1, Len(versions)) = versions
              /\ new.id = versionCounter + 1
              /\ new.history = history'
              /\ activeVersionId' = new.id
              /\ state' = "rendered" ]_vars

C8_Witness ==
  /\ lastOp = "completed"
  /\ Len(versions) = 2
  /\ Len(history) = 4
  /\ activeVersionId = 2

(***************************************************************************)
(* C9.  An accepted submit that is no refinement empties the turn log and  *)
(* the store and zeroes the id counter before the generator is called, and *)
(* when it succeeds the store holds one version, with id 1, and the turn   *)
(* log has length 2.                                                       *)
(***************************************************************************)
C9_NonRefinementStartsNewLineage ==
  [][ /\ (Accepted /\ ~LastOf(pending').isRefinement)
         => (history' = <<>> /\ versions' = <<>> /\ versionCounter' = 0)
      /\ \A i \in 1..Len(pending) :
           (SettledWith("completed", pending[i]) /\ ~pending[i].isRefinement)
           => /\ Len(versions') = 1
              /\ versions'[1].id = 1
              /\ Len(history') = 2 ]_vars

(***************************************************************************)
(* C10.  The request of an accepted submit carries the trimmed prompt and, *)
(* as context, the session's turn log for a refinement and the empty turn  *)
(* log otherwise.                                                          *)
(***************************************************************************)
C10_RequestCarriesPromptAndContext ==
  [][ Accepted
      => LET req == LastOf(pending')
         IN /\ SubSeq(pending', 1, Len(pending)) = pending
            /\ req.prompt # <<>>
            /\ IsTrimOf(req.prompt, req.raw)
            /\ req.history = (IF req.isRefinement THEN history ELSE <<>>) ]_vars

C10_Witness ==
  /\ lastOp = "submit"
  /\ pending # <<>>
  /\ LastOf(pending).isRefinement
  /\ LastOf(pending).history # <<>>
  /\ LastOf(pending).prompt # LastOf(pending).raw

(***************************************************************************)
(* C11.  Opening a preview and closing it change no field of the session   *)
(* (state, active id, turn log, store, document, last prompt, error, id    *)
(* counter); the version a preview shows is a version of the store, and    *)
(* the only one of the store with that id, so that two previews of one id  *)
(* with no change between them show the same version.                      *)
(***************************************************************************)
C11_PreviewChangesNothing ==
  [][ /\ lastOp' \in {"preview", "close"}
         => UNCHANGED << state, activeVersionId, history, versions,
                         a2uiMessages, lastPrompt, errorMsg, versionCounter >>
      /\ lastOp' = "preview"
         => /\ previewVersion' # <<>>
            /\ \E i \in 1..Len(versions) : versions[i] = previewVersion'[1]
            /\ \A i \in 1..Len(versions) :
                 versions[i].id = previewVersion'[1].id
                 => versions[i] = previewVersion'[1] ]_vars

C11_Witness ==
  /\ lastOp = "preview"
  /\ previewVersion # <<>>
  /\ Len(versions) >= 2
  /\ previewVersion[1].id # activeVersionId

(***************************************************************************)
(* C12.  A submit that is rejected changes no field of the session and     *)
(* sends no request, and a submit is accepted neither while the state is   *)
(* "thinking" nor with a prompt made of white space only.                  *)
(***************************************************************************)
C12_RejectedSubmitIsNoOp ==
  [][ /\ lastOp' = "rejected"
         => UNCHANGED << state, lastPrompt, errorMsg, history, versions,
                         activeVersionId, versionCounter, a2uiMessages,
                         pending, requestsSent >>
      /\ Accepted
         => /\ state # "thinking"
            /\ \E k \in 1..Len(LastOf(pending').raw) :
                 LastOf(pending').raw[k] # " " ]_vars

C12_Witness ==
  /\ lastOp = "rejected"
  /\ state = "thinking"
  /\ Len(pending) = 1

(***************************************************************************)
(* C13.  Whenever the version store is not empty, the turn log kept in its *)
(* last version is the session's turn log.                                 *)
(***************************************************************************)
C13_LastVersionHoldsTurnLog ==
  versions # <<>> => LastOf(versions).history = history

(***************************************************************************)
(* C14.  A generation that fails (no answer, a status that is not ok, a    *)
(* body that is no JSON, an error payload, no fragment) takes the session  *)
(* from "thinking" to "error" with an error message that is not empty and  *)
(* adds no version; a generation never succeeds with no fragment; when the *)
(* failing request is the first of the session, the store and the turn log *)
(* stay empty.                                                             *)
(***************************************************************************)
C14_FailureSurfacesAsFailed ==
  [][ /\ \A i \in 1..Len(pending) :
           SettledWith("failed", pending[i])
           => /\ state = "thinking"
              /\ state' = "error"
              /\ errorMsg' # ""
              /\ versions' = versions
              /\ versionCounter' = versionCounter
              /\ requestsSent = 1 => (versions' = <<>> /\ history' = <<>>)
      /\ lastOp' = "completed" => a2uiMessages' # <<>> ]_vars

(***************************************************************************)
(* C15.  reset leaves the session in "idle" with an empty store, an empty  *)
(* turn log, no document, the id counter and the active id at 0 and no     *)
(* error; no other handler takes the session from "rendered" to "idle".    *)
(***************************************************************************)
C15_ResetStartsOver ==
  [][ /\ lastOp' = "reset"
         => /\ state' = "idle"
            /\ versions' = <<>>
            /\ history' = <<>>
            /\ a2uiMessages' = <<>>
            /\ versionCounter' = 0
            /\ activeVersionId' = 0
            /\ errorMsg' = ""
      /\ (state = "rendered" /\ state' = "idle") => lastOp' = "reset" ]_vars

\* A reset of a session that displayed the second of two versions, one of
\* them previewed.
C15_Witness ==
  /\ lastOp = "reset"
  /\ state = "idle"
  /\ requestsSent = 2
  /\ previewVersion # <<>>

(***************************************************************************)
(* C16.  A restore is only applied to a version that is in the version     *)
(* store when the restore runs.                                            *)
(***************************************************************************)
C16_RestoreOnlyOfPresentVersion ==
  [][ lastOp' = "restore"
      => \E i \in 1..Len(versions) : versions[i] = previewVersion[1] ]_vars

(***************************************************************************)
(* C17.  In every reachable state no version of the store has an id above  *)
(* the active id, and the ids of the store are strictly increasing.        *)
(***************************************************************************)
C17_TimelineEndsAtActive ==
  /\ \A i \in 1..Len(versions) : versions[i].id <= activeVersionId
  /\ \A i \in 1..Len(versions) : \A j \in 1..Len(versions) :
       i < j => versions[i].id < versions[j].id

\* Right after the restore of a version of the store.
C17_Witness ==
  /\ lastOp = "restore"
  /\ restored # <<>>
  /\ restored[1].present
  /\ versions # <<>>
  /\ LastOf(versions).id = activeVersionId

(***************************************************************************)
(* C18.  A session in "error" never moves to "thinking", accepts no        *)
(* submit, and leaves "error" only by a reset, to "idle".                  *)
(***************************************************************************)
C18_FailedLeavesOnlyByReset ==
  [][ state = "error"
      => /\ state' # "thinking"
         /\ lastOp' # "submit"
         /\ state' # "error" => (lastOp' = "reset" /\ state' = "idle") ]_vars

(***************************************************************************)
(* C19.  An accepted submit sends exactly one request; nothing else sends  *)
(* one: a rejected submit sends none and a completion, failed or not, only *)
(* retires the request it settles.  So the requests sent are as many as    *)
(* the submits accepted.                                                   *)
(***************************************************************************)
C19_OneRequestPerAcceptedSubmit ==
  [][ /\ lastOp' = "submit"
         => /\ requestsSent' = requestsSent + 1
            /\ Len(pending') = Len(pending) + 1
            /\ SubSeq(pending', 1, Len(pending)) = pending
      /\ lastOp' # "submit"
         => /\ requestsSent' = requestsSent
            /\ Len(pending') <= Len(pending)
      /\ lastOp' \in {"completed", "failed"}
         => Len(pending') = Len(pending) - 1 ]_vars

\* After the failure of the second request nothing is outstanding.
C19_Witness ==
  /\ lastOp = "failed"
  /\ requestsSent = 2
  /\ pending = <<>>

(***************************************************************************)
(* C20.  Versions are immutable: every version of the store after a step   *)
(* is, unchanged and at the same place, a version of the store before it,  *)
(* or is the one version a successful completion has just appended; the    *)
(* version held by the preview is the one it held or a version of the      *)
(* store.                                                                  *)
(***************************************************************************)
C20_VersionsImmutable ==
  [][ /\ \A i \in 1..Len(versions') :
           \/ i <= Len(versions) /\ versions'[i] = versions[i]
           \/ /\ lastOp' = "completed"
              /\ i = Len(versions')
              /\ i = Len(versions) + 1
      /\ previewVersion' # <<>>
         => \/ previewVersion' = previewVersion
            \/ \E i \in 1..Len(versions) : versions[i] = previewVersion'[1] ]_vars

\* A version held by the preview and kept by the store through a
\* refinement and through a restore of it.
C20_Witness ==
  /\ lastOp = "restore"
  /\ restored # <<>>
  /\ restored[1].present
  /\ Len(versions) >= 2
  /\ requestsSent >= 3

(***************************************************************************)
(* C21.  In every reachable state the turn log has even length and is made *)
(* of rounds: a user turn followed by an assistant turn.                   *)
(***************************************************************************)
C21_TurnLogMadeOfRounds ==
  /\ Len(history) % 2 = 0
  /\ \A k \in 1..Len(history) :
       history[k].role = (IF k % 2 = 1 THEN "user" ELSE "assistant")

\* A failed refinement of a session of two rounds.
C21_Witness ==
  /\ state = "error"
  /\ lastOp = "failed"
  /\ Len(history) = 4

(***************************************************************************)
(* C22.  Once a submit is accepted, nothing but the completion of a        *)
(* request takes the session out of "thinking".                            *)
(***************************************************************************)
C22_OnlyCompletionLeavesThinking ==
  [][ (state = "thinking" /\ state' # "thinking")
      => lastOp' \in {"completed", "failed"} ]_vars

(***************************************************************************)
(* C22, the part on progress: with a generator that answers, a session in  *)
(* "thinking" reaches "rendered" or "error", and the requests outstanding  *)
(* are all settled in the end.                                             *)
(***************************************************************************)
C22_ThinkingEnds ==
  /\ (state = "thinking") ~> (state \in {"rendered", "error"})
  /\ (pending # <<>>) ~> (pending = <<>>)

(***************************************************************************)
(* C23.  A preview is opened by a pill of the timeline only: in "rendered",*)
(* with at least two versions in the store, for a version of the store     *)
(* other than the active one; a restore needs an open preview.             *)
(***************************************************************************)
C23_PreviewOnlyFromTimeline ==
  [][ /\ (previewVersion' # <<>> /\ previewVersion' # previewVersion)
         => lastOp' = "preview"
      /\ lastOp' = "preview"
         => /\ state = "rendered"
            /\ Len(versions) >= 2
            /\ previewVersion' # <<>>
            /\ previewVersion'[1].id # activeVersionId
            /\ \E i \in 1..Len(versions) : versions[i] = previewVersion'[1]
      /\ lastOp' = "restore" => previewVersion # <<>> ]_vars

\* The second of three versions is opened while the third is active.
C23_Witness ==
  /\ lastOp = "preview"
  /\ Len(versions) = 3
  /\ activeVersionId = 3
  /\ previewVersion # <<>>
  /\ previewVersion[1].id = 2

(***************************************************************************)
(* C24.  History chain: in every reachable state the turn log of each      *)
(* version of the store is the turn log of the version before it in the    *)
(* store (the empty log for the first) followed by the user turn of its    *)
(* own prompt and an assistant turn; the version with id k has a turn log  *)
(* of length 2k.                                                           *)
(***************************************************************************)
C24_HistoryChain ==
  \A i \in 1..Len(versions) :
    LET v    == versions[i]
        prev == IF i = 1 THEN <<>> ELSE versions[i - 1].history
        n    == Len(prev)
    IN /\ Len(v.history) = n + 2
       /\ SubSeq(v.history, 1, n) = prev
       /\ v.history[n + 1] = [role |-> "user", content |-> v.prompt]
       /\ v.history[n + 2].role = "assistant"
       /\ Len(v.history) = 2 * v.id

(***************************************************************************)
(* C25.  In every reachable state the active id is 0 when the store is     *)
(* empty and the id of the last version of the store otherwise.            *)
(***************************************************************************)
C25_ActiveIsLastOfStore ==
  activeVersionId = (IF versions = <<>> THEN 0 ELSE LastOf(versions).id)

(***************************************************************************)
(* C26.  Whenever the state is "rendered", the document handed to the      *)
(* renderer is the document of the version of the store whose id is the    *)
(* active id.                                                              *)
(***************************************************************************)
C26_DisplayedIsActiveDocument ==
  state = "rendered"
  => \E i \in 1..Len(versions) :
       /\ versions[i].id = activeVersionId
       /\ versions[i].messages = a2uiMessages

(***************************************************************************)
(* C27.  In every reachable state the id counter is the number of versions *)
(* in the store, and the id of the last version when there is one.         *)
(***************************************************************************)
C27_CounterIsStoreSize ==
  /\ versionCounter = Len(versions)
  /\ versions # <<>> => LastOf(versions).id = versionCounter

(***************************************************************************)
(* C28.  The state agrees with the data: in "idle" the store and the turn  *)
(* log are empty and the id counter and the active id are 0; in "rendered" *)
(* the store is not empty.                                                 *)
(***************************************************************************)
C28_StateAgreesWithData ==
  /\ state = "idle"
     => /\ versions = <<>>
        /\ history = <<>>
        /\ versionCounter = 0
        /\ activeVersionId = 0
  /\ state = "rendered" => versions # <<>>

(***************************************************************************)
(* C29.  Whenever the state is "rendered", lastPrompt is the prompt of the *)
(* active version.                                                         *)
(***************************************************************************)
C29_LastPromptIsActivePrompt ==
  state = "rendered"
  => \E i \in 1..Len(versions) :
       /\ versions[i].id = activeVersionId
       /\ versions[i].prompt = lastPrompt

(***************************************************************************)
(* C30.  The error message is not empty only while the state is "error":   *)
(* "idle", "thinking" and "rendered" carry no error message.               *)
(***************************************************************************)
C30_ErrorOnlyInFailed ==
  errorMsg # "" => state = "error"

====
